---- MODULE Spec2Model ----
(***************************************************************************)
(* Statistical test engine of src/stats.cpp: summary statistics, the       *)
(* chi-squared uniformity statistic and five NIST-style bit tests, called   *)
(* on one caller-owned buffer of 32-bit words.                              *)
(*                                                                          *)
(* Representation.  A uint32_t is a sequence of four bytes, least           *)
(* significant first, so that the full 32-bit width is kept although the    *)
(* checker's integers are narrower.  uint64_t sums and products are         *)
(* little-endian byte sequences as well.  A double that the code computes   *)
(* from integers is kept as the exact rational (numerator, denominator)     *)
(* it rounds; sqrt is kept as its radicand; erfc(x) >= 0.01 is decided as   *)
(* x*x <= ErfcCritSq.                                                       *)
(***************************************************************************)
EXTENDS Integers, Naturals, Sequences, FiniteSets, TLC

\* ---------------------------------------------------------------- bounds
MaxLen == 2          \* longest buffer, in words
MaxM == 4            \* largest block size tried by nist_block_frequency
MaxBins == 3         \* largest bin count tried by chi_squared

\* ------------------------------------------------------ program constants
WordBits == 32       \* bits per sample word
MinBlocks == 20      \* fewest blocks nist_block_frequency accepts
RangeBytes == 4      \* max_val = 256^RangeBytes = 2^32, the driver's range

\* erfc(x) >= 0.01  <=>  x <= 1.8213863677...  <=>  x^2 <= 3.31744830...
ErfcCritSqNum == 3317448
ErfcCritSqDen == 1000000

\* ----------------------------------------------------------- sample words
Byte == 0..255
ZeroWord == <<0, 0, 0, 0>>              \* 0x00000000
OnesWord == <<255, 255, 255, 255>>      \* 0xFFFFFFFF
AltWordA == <<170, 170, 170, 170>>      \* 0xAAAAAAAA, bit 0 clear
HalfWord == <<255, 255, 0, 0>>          \* 0x0000FFFF
LowBitWord == <<1, 0, 0, 0>>            \* 0x00000001
WordPool == {ZeroWord, OnesWord, AltWordA, HalfWord, LowBitWord}

RECURSIVE SeqsUpTo(_, _)
SeqsUpTo(S, k) ==
    IF k = 0 THEN {<<>>}
    ELSE LET shorter == SeqsUpTo(S, k - 1)
         IN  shorter \cup {Append(s, x) : s \in {t \in shorter : Len(t) = k - 1}, x \in S}

Buffers == SeqsUpTo(WordPool, MaxLen)

\* ------------------------------------------------------------------ state
VARIABLES
    buffer,   \* the sample buffer the caller owns (main.cpp: buffer)
    buffer0,  \* history: the buffer as the caller filled it
    m_i,      \* the caller's last mean (main.cpp: m_i), Unset before
    s_i,      \* the caller's last stdev (main.cpp: s_i), Unset before
    heap,     \* contents of the block chi_squared freed last
    last,     \* the call that returned last: function, argument, result
    solo      \* history: what each call returns as the first call on buffer0

vars == <<buffer, buffer0, m_i, s_i, heap, last, solo>>

Unset == [unset |-> TRUE]

\* ------------------------------------------------- unsigned multi-byte ints
\* little-endian base-256 naturals without trailing zero digits
RECURSIVE Trim(_)
Trim(d) ==
    IF d = <<>> THEN <<>>
    ELSE IF d[Len(d)] = 0 THEN Trim(SubSeq(d, 1, Len(d) - 1)) ELSE d

RECURSIVE FromInt(_)
FromInt(k) == IF k = 0 THEN <<>> ELSE <<k % 256>> \o FromInt(k \div 256)

Digit(d, i) == IF i <= Len(d) THEN d[i] ELSE 0

RECURSIVE AddCarry(_, _, _, _)
AddCarry(a, b, i, carry) ==
    IF i > Len(a) /\ i > Len(b)
    THEN (IF carry = 0 THEN <<>> ELSE <<carry>>)
    ELSE LET t == Digit(a, i) + Digit(b, i) + carry
         IN  <<t % 256>> \o AddCarry(a, b, i + 1, t \div 256)

Add(a, b) == Trim(AddCarry(a, b, 1, 0))

\* a - b for a >= b
RECURSIVE SubBorrow(_, _, _, _)
SubBorrow(a, b, i, borrow) ==
    IF i > Len(a) THEN <<>>
    ELSE LET t == Digit(a, i) - Digit(b, i) - borrow
         IN  IF t < 0 THEN <<t + 256>> \o SubBorrow(a, b, i + 1, 1)
             ELSE <<t>> \o SubBorrow(a, b, i + 1, 0)

Sub(a, b) == Trim(SubBorrow(a, b, 1, 0))

RECURSIVE MulDigit(_, _, _, _)
MulDigit(a, k, i, carry) ==
    IF i > Len(a) THEN FromInt(carry)
    ELSE LET t == a[i] * k + carry
         IN  <<t % 256>> \o MulDigit(a, k, i + 1, t \div 256)

RECURSIVE Mul(_, _)
Mul(a, b) ==
    IF b = <<>> THEN <<>>
    ELSE Add(Trim(MulDigit(a, b[1], 1, 0)), Trim(<<0>> \o Mul(a, Tail(b))))

\* value of a natural small enough for the checker's integers
RECURSIVE ToInt(_)
ToInt(d) == IF d = <<>> THEN 0 ELSE d[1] + 256 * ToInt(Tail(d))

\* a / 256^k, the unsigned division by max_val = 256^k
DivPow256(a, k) == IF Len(a) <= k THEN <<>> ELSE SubSeq(a, k + 1, Len(a))

\* a/b <= c/d for naturals a, c and positive b, d, without forming a*d or b*c
RECURSIVE RatLeq(_, _, _, _)
RatLeq(a, b, c, d) ==
    LET qa == a \div b
        qc == c \div d
        ra == a % b
        rc == c % d
    IN  IF qa # qc THEN qa < qc
        ELSE IF ra = 0 THEN TRUE
        ELSE IF rc = 0 THEN FALSE
        ELSE RatLeq(d, rc, b, ra)

\* erfc(x) >= 0.01 for x = sqrt(num/den), x >= 0
ErfcAtLeastAlpha(num, den) == RatLeq(num, den, ErfcCritSqNum, ErfcCritSqDen)

\* ------------------------------------------------------------- bit access
\* (x >> pos) & 1 on a 32-bit word
ShiftAnd1(x, pos) == (x[(pos \div 8) + 1] \div (2 ^ (pos % 8))) % 2

\* x >> 1 on a 32-bit word
Shr1(x) ==
    << (x[1] \div 2) + (x[2] % 2) * 128,
       (x[2] \div 2) + (x[3] % 2) * 128,
       (x[3] \div 2) + (x[4] % 2) * 128,
       x[4] \div 2 >>

\* (w[i / 32] >> (i % 32)) & 1.  The tests below never index past the last
\* word (BlockFrequencyBlocks checks the one loop whose bound is not 32*len);
\* an index past the buffer would read memory the model does not have.
BitAt(w, i) ==
    IF i \div WordBits < Len(w)
    THEN ShiftAnd1(w[(i \div WordBits) + 1], i % WordBits)
    ELSE 0

Abs(x) == IF x < 0 THEN -x ELSE x

\* Every for-loop over bits, blocks or series terms below is evaluated by
\* halving its index range lo..hi-1, so that the evaluation nests only
\* log(hi-lo) deep: the first half runs from st, the second half from the
\* first half's result.  The test left = left makes the first half finish
\* before the second starts and changes no value.

\* --------------------------------------------------------------- popcount32
RECURSIVE popcount32_shift2(_)
popcount32_shift2(x) ==
    IF x = ZeroWord THEN 0
    ELSE (x[1] % 2) + popcount32_shift2(Shr1(Shr1(x)))

RECURSIVE popcount32(_)
popcount32(x) ==
    IF x = ZeroWord THEN 0
    ELSE (x[1] % 2) + popcount32(Shr1(x))

\* ------------------------------------------------------------- nist_monobit
RECURSIVE MonobitOnes(_, _, _)
MonobitOnes(w, len, i) ==
    IF i >= len THEN 0 ELSE popcount32(w[i + 1]) + MonobitOnes(w, len, i + 1)

\* s = |2*ones - n| / sqrt(n);  erfc(s / sqrt 2) >= 0.01  <=>  s^2 / 2 <= crit
nist_monobit(w, len) ==
    LET ones == MonobitOnes(w, len, 0)
        n == len * WordBits
        dev == Abs(2 * ones - n)
    IN  [ ones |-> ones, n |-> n, dev |-> dev,
          verdict |-> IF ErfcAtLeastAlpha(dev * dev, 2 * n) THEN 1 ELSE 0 ]

\* ----------------------------------------------------- nist_block_frequency
\* ++bit of the inner loop
NextBit_stride2(bit) == bit + 2

NextBit(bit) == bit + 1

\* inner loop: M reads starting at the running index bit
RECURSIVE BlockInner(_, _, _, _, _, _)
BlockInner(w, M, i, bit, ones, rd) ==
    IF i >= M THEN [ones |-> ones, bit |-> bit, rd |-> rd]
    ELSE BlockInner(w, M, i + 1, NextBit(bit), ones + BitAt(w, bit),
                    Append(rd, <<bit \div WordBits, bit % WordBits>>))

\* one block of the outer loop: accumulates (2*ones - M)^2, which is
\* 4*M*M*(pi - 0.5)^2
BlockStep(w, M, st, b) ==
    LET r == BlockInner(w, M, 0, st.bit, 0, <<>>)
    IN  [ bit |-> r.bit,
          chiNum |-> st.chiNum + (2 * r.ones - M) * (2 * r.ones - M),
          blocks |-> Append(st.blocks, [ones |-> r.ones, rd |-> r.rd]) ]

\* for (b = lo; b < hi; ++b)
RECURSIVE BlockOuter(_, _, _, _, _)
BlockOuter(w, M, lo, hi, st) ==
    IF hi <= lo THEN st
    ELSE IF hi = lo + 1 THEN BlockStep(w, M, st, lo)
    ELSE LET mid == (lo + hi) \div 2
             left == BlockOuter(w, M, lo, mid, st)
         IN  IF left = left THEN BlockOuter(w, M, mid, hi, left) ELSE st

TooFewBlocks_below10(nBlocks) == nBlocks < 10

TooFewBlocks(nBlocks) == nBlocks < MinBlocks

\* chi = 4*M*sum (pi-0.5)^2 = chiNum / M;  p = erfc(sqrt(chi / nBlocks))
nist_block_frequency(w, len, M) ==
    LET nBits == len * WordBits
        nBlocks == nBits \div M
    IN  IF TooFewBlocks(nBlocks)
        THEN [ nBlocks |-> nBlocks, tested |-> FALSE, blocks |-> <<>>,
               chiNum |-> 0, verdict |-> 0 ]
        ELSE LET r == BlockOuter(w, M, 0, nBlocks,
                                   [bit |-> 0, chiNum |-> 0, blocks |-> <<>>])
             IN  [ nBlocks |-> nBlocks, tested |-> TRUE, blocks |-> r.blocks,
                   chiNum |-> r.chiNum,
                   verdict |-> IF ErfcAtLeastAlpha(r.chiNum, M * nBlocks)
                               THEN 1 ELSE 0 ]

\* ---------------------------------------------------------------- nist_runs
\* loop body for bit i
RunsStep(w, st, i) ==
    LET bit == BitAt(w, i)
    IN  [ ones |-> st.ones + bit,
          runsCnt |-> IF bit # st.prev THEN st.runsCnt + 1 ELSE st.runsCnt,
          prev |-> IF bit # st.prev THEN bit ELSE st.prev ]

\* for (i = lo; i < hi; ++i)
RECURSIVE RunsLoop(_, _, _, _)
RunsLoop(w, lo, hi, st) ==
    IF hi <= lo THEN st
    ELSE IF hi = lo + 1 THEN RunsStep(w, st, lo)
    ELSE LET mid == (lo + hi) \div 2
             left == RunsLoop(w, lo, mid, st)
         IN  IF left = left THEN RunsLoop(w, mid, hi, left) ELSE st

\* fabs(pi - 0.5) > 2.0 / sqrt(n) with pi = ones / n
FrequencyPrecheckFails_never(ones, n) == FALSE

FrequencyPrecheckFails_loose(ones, n) == (2 * ones - n) * (2 * ones - n) > 64 * n

FrequencyPrecheckFails(ones, n) == (2 * ones - n) * (2 * ones - n) > 16 * n

\* z = |runsCnt - 2*n*pi*(1-pi)| / (2*sqrt(2n)*pi*(1-pi));  with
\* P = ones*(n-ones) and A = |runsCnt*n - 2*P| this is z^2 = A^2*n / (8*P^2).
\* A zero divisor gives z = inf (runsCnt >= 1), erfc(inf) = 0.
nist_runs(w, len) ==
    LET n == len * WordBits
        prev0 == ShiftAnd1(w[1], 0)
        r == RunsLoop(w, 1, n, [ones |-> prev0, runsCnt |-> 1, prev |-> prev0])
        P == r.ones * (n - r.ones)
        A == Abs(r.runsCnt * n - 2 * P)
    IN  IF FrequencyPrecheckFails(r.ones, n)
        THEN [ ones |-> r.ones, runsCnt |-> r.runsCnt, n |-> n,
               zComputed |-> FALSE, divisorZero |-> FALSE, verdict |-> 0 ]
        ELSE [ ones |-> r.ones, runsCnt |-> r.runsCnt, n |-> n,
               zComputed |-> TRUE, divisorZero |-> (P = 0),
               verdict |-> IF P # 0 /\ RatLeq(A * A, 8 * P * P,
                                              ErfcCritSqNum, ErfcCritSqDen * n)
                           THEN 1 ELSE 0 ]

\* ----------------------------------------------------- nist_cumulative_sums
\* if (s > zmax) zmax = s; else if (-s > zmax) zmax = -s;
Excursion_upOnly(s, zmax) == IF s > zmax THEN s ELSE zmax

Excursion(s, zmax) == IF s > zmax THEN s ELSE IF -s > zmax THEN -s ELSE zmax

\* loop body for bit i
CusumStep(w, st, i) ==
    LET s1 == st.s + (IF BitAt(w, i) = 1 THEN 1 ELSE -1)
    IN  [s |-> s1, zmax |-> Excursion(s1, st.zmax)]

\* for (i = lo; i < hi; ++i)
RECURSIVE CusumLoop(_, _, _, _)
CusumLoop(w, lo, hi, st) ==
    IF hi <= lo THEN st
    ELSE IF hi = lo + 1 THEN CusumStep(w, st, lo)
    ELSE LET mid == (lo + hi) \div 2
             left == CusumLoop(w, lo, mid, st)
         IN  IF left = left THEN CusumLoop(w, mid, hi, left) ELSE st

\* (int)(num / den) for den > 0: the cast discards the fraction, towards zero
IntCast_floor(num, den) == num \div den

IntCast(num, den) == IF num >= 0 THEN num \div den ELSE -((-num) \div den)

\* erfc(num / sqrt(2n)) in units of 1/10000, erfc tabulated at multiples of
\* 1/4 of |x| (rounded down), erfc(-x) = 2 - erfc(x)
ErfcTable == <<10000, 7237, 4795, 2888, 1573, 771, 339, 133, 47, 15, 4, 1, 0>>

erfc(num, n) ==
    LET js == {j \in 0..(Len(ErfcTable) - 1) : j * j * 2 * n <= 16 * num * num}
        j == CHOOSE k \in js : \A l \in js : l <= k
        v == ErfcTable[j + 1]
    IN  IF num < 0 THEN 20000 - v ELSE v

\* p -= erfc(a) - erfc(b) with a = (4k+1)*zmax/sqrt(2n), b = (4k-1)*zmax/sqrt(2n)
CusumTerm(zmax, n, st, k) ==
    [ p |-> st.p - (erfc((4 * k + 1) * zmax, n) - erfc((4 * k - 1) * zmax, n)),
      ks |-> Append(st.ks, k) ]

\* for (k = lo; k < hi; ++k)
RECURSIVE CusumSeries(_, _, _, _, _)
CusumSeries(zmax, n, lo, hi, st) ==
    IF hi <= lo THEN st
    ELSE IF hi = lo + 1 THEN CusumTerm(zmax, n, st, lo)
    ELSE LET mid == (lo + hi) \div 2
             left == CusumSeries(zmax, n, lo, mid, st)
         IN  IF left = left THEN CusumSeries(zmax, n, mid, hi, left) ELSE st

\* start = (int)((-(n/zmax) + 1) / 4) = (int)((zmax - n) / (4*zmax)),
\* end   = (int)(((n/zmax) - 1) / 4)  = (int)((n - zmax) / (4*zmax))
nist_cumulative_sums(w, len) ==
    LET n == len * WordBits
        zmax == CusumLoop(w, 0, n, [s |-> 0, zmax |-> 0]).zmax
    IN  IF zmax = 0
        THEN [ zmax |-> 0, n |-> n, divided |-> FALSE, start |-> 0, end |-> 0,
               ks |-> <<>>, p |-> 10000, verdict |-> 0 ]
        ELSE LET start == IntCast(zmax - n, 4 * zmax)
                 end == IntCast(n - zmax, 4 * zmax)
                 r == CusumSeries(zmax, n, start, end + 1, [p |-> 10000, ks |-> <<>>])
             IN  [ zmax |-> zmax, n |-> n, divided |-> TRUE,
                   start |-> start, end |-> end, ks |-> r.ks, p |-> r.p,
                   verdict |-> IF r.p >= 100 THEN 1 ELSE 0 ]

\* ------------------------------------------------------------- nist_serial2
\* the pair closing the cycle: ++c2[(prev << 1) | first]
WrapPair_omitted(c2, prev, first) == c2

WrapPair(c2, prev, first) ==
    [c2 EXCEPT ![2 * prev + first] = @ + 1]

\* loop body for bit i; prev = -1 before the first bit
SerialStep(w, st, i) ==
    LET b == BitAt(w, i)
    IN  [ prev |-> b,
          c1 |-> [st.c1 EXCEPT ![b] = @ + 1],
          c2 |-> IF st.prev # -1
                 THEN [st.c2 EXCEPT ![2 * st.prev + b] = @ + 1]
                 ELSE st.c2 ]

\* for (i = lo; i < hi; ++i)
RECURSIVE SerialLoop(_, _, _, _)
SerialLoop(w, lo, hi, st) ==
    IF hi <= lo THEN st
    ELSE IF hi = lo + 1 THEN SerialStep(w, st, lo)
    ELSE LET mid == (lo + hi) \div 2
             left == SerialLoop(w, lo, mid, st)
         IN  IF left = left THEN SerialLoop(w, mid, hi, left) ELSE st

\* psi1 = 2*(c1_0^2 + c1_1^2)/dn - dn,  psi2 = 4*sum c2_i^2/dn - dn,
\* diff = |psi2 - psi1| = B / dn;  x = diff / (2*sqrt(2*dn)),  x^2 = B^2/(8*dn^3)
nist_serial2(w, len) ==
    LET n == len * WordBits
        first == ShiftAnd1(w[1], 0)
        r == SerialLoop(w, 0, n, [prev |-> -1, c1 |-> [v \in 0..1 |-> 0],
                                   c2 |-> [v \in 0..3 |-> 0]])
        c1 == r.c1
        c2 == WrapPair(r.c2, r.prev, first)
        dn == c1[0] + c1[1]
        B == Abs(4 * (c2[0] * c2[0] + c2[1] * c2[1] + c2[2] * c2[2] + c2[3] * c2[3])
                 - 2 * (c1[0] * c1[0] + c1[1] * c1[1]))
    IN  [ c1 |-> c1, c2 |-> c2, dn |-> dn,
          verdict |-> IF ErfcAtLeastAlpha(B * B, 8 * dn * dn * dn) THEN 1 ELSE 0 ]

\* ---------------------------------------------------------------------- mean
RECURSIVE MeanSum(_, _, _)
MeanSum(data, n, i) ==
    IF i >= n THEN <<>> ELSE Add(Trim(data[i + 1]), MeanSum(data, n, i + 1))

\* (double)sum / n, kept as the fraction sum / n
mean(data, n) == [num |-> MeanSum(data, n, 0), den |-> n]

\* --------------------------------------------------------------------- stdev
\* a <= b on multi-byte naturals
RECURSIVE LeqFrom(_, _, _)
LeqFrom(a, b, i) ==
    IF i = 0 THEN TRUE
    ELSE IF a[i] # b[i] THEN a[i] < b[i]
    ELSE LeqFrom(a, b, i - 1)

Leq(a, b) ==
    IF Len(a) # Len(b) THEN Len(a) < Len(b) ELSE LeqFrom(a, b, Len(a))

AbsDiff(a, b) == IF Leq(a, b) THEN Sub(b, a) ELSE Sub(a, b)

\* acc += (data[i] - m)^2 with m = P/q:  (data[i]*q - P)^2 / q^2
RECURSIVE StdevAcc(_, _, _, _)
StdevAcc(data, n, m, i) ==
    IF i >= n THEN <<>>
    ELSE LET d == AbsDiff(Mul(Trim(data[i + 1]), FromInt(m.den)), m.num)
         IN  Add(Mul(d, d), StdevAcc(data, n, m, i + 1))

\* sqrt(acc / n), kept as the radicand acc / n = radNum / radDen
stdev(data, n, m) ==
    [radNum |-> StdevAcc(data, n, m, 0), radDen |-> m.den * m.den * n]

\* ----------------------------------------------------------------- coeff_var
\* m == 0.0 ? 0.0 : sd / m
coeff_var(m, sd) ==
    IF m.num = <<>> THEN [zero |-> TRUE, sd |-> Unset, m |-> Unset]
    ELSE [zero |-> FALSE, sd |-> sd, m |-> m]

\* --------------------------------------------------------------- chi_squared
\* a block of bins counters as malloc would hand it out: whatever the block
\* freed last still holds
malloc_uninit(bins) ==
    IF DOMAIN heap = 0..(bins - 1) THEN heap ELSE [i \in 0..(bins - 1) |-> 0]

\* calloc(bins, sizeof(unsigned long)): a zeroed block
calloc(bins) == [i \in 0..(bins - 1) |-> 0]

\* idx = ((uint64_t)x * bins) / max_val;  if (idx >= bins) idx = bins - 1;
BinOf_offByOne(x, bins, maxValBytes) ==
    ToInt(DivPow256(Mul(Trim(x), FromInt(bins)), maxValBytes)) + 1

BinOf(x, bins, maxValBytes) ==
    LET idx == ToInt(DivPow256(Mul(Trim(x), FromInt(bins)), maxValBytes))
    IN  IF idx >= bins THEN bins - 1 ELSE idx

RECURSIVE ChiFill(_, _, _, _, _, _, _)
ChiFill(data, n, bins, maxValBytes, i, freq, idxs) ==
    IF i >= n THEN [freq |-> freq, idxs |-> idxs]
    ELSE LET idx == BinOf(data[i + 1], bins, maxValBytes)
         IN  ChiFill(data, n, bins, maxValBytes, i + 1,
                     [j \in DOMAIN freq |-> IF j = idx THEN freq[j] + 1 ELSE freq[j]],
                     Append(idxs, idx))

RECURSIVE ChiSum(_, _, _, _)
ChiSum(freq, n, bins, i) ==
    IF i >= bins THEN 0
    ELSE (bins * freq[i] - n) * (bins * freq[i] - n) + ChiSum(freq, n, bins, i + 1)

\* expected = n / bins;  chi2 = sum (freq[i] - expected)^2 / expected
\*                            = sum (bins*freq[i] - n)^2 / (bins*n)
chi_squared(data, n, bins, maxValBytes) ==
    LET r == ChiFill(data, n, bins, maxValBytes, 0, calloc(bins), <<>>)
    IN  [ idxs |-> r.idxs, freq |-> r.freq,
          chiNum |-> ChiSum(r.freq, n, bins, 0), chiDen |-> bins * n ]

\* -------------------------------------------------------------------- driver
\* The caller of main.cpp fills a buffer and calls the engine on it.  Here the
\* calls come in any order and any number of times.  Calls that dereference
\* w[0] or divide by n are made on non-empty buffers only (main.cpp's sample
\* sizes are all positive); nist_block_frequency and nist_cumulative_sums
\* return before any read or division on an empty buffer and are called on it.
NoCall == [fn |-> "none", arg |-> 0]

Call(fn, arg) == [fn |-> fn, arg |-> arg]

Calls(b) ==
    {Call("nist_block_frequency", M) : M \in 1..MaxM}
    \cup {Call("nist_cumulative_sums", 0)}
    \cup IF Len(b) = 0 THEN {}
         ELSE {Call(f, 0) : f \in {"mean", "stdev", "coeff_var", "nist_monobit",
                                   "nist_runs", "nist_serial2"}}
              \cup {Call("chi_squared", bins) : bins \in 1..MaxBins}

\* the result of call c made first on buffer b, as main.cpp chains the
\* arguments: stdev gets mean's result, coeff_var gets both
FirstResult(c, b) ==
    LET n == Len(b) IN
    CASE c.fn = "mean" -> mean(b, n)
      [] c.fn = "stdev" -> stdev(b, n, mean(b, n))
      [] c.fn = "coeff_var" -> coeff_var(mean(b, n), stdev(b, n, mean(b, n)))
      [] c.fn = "chi_squared" -> chi_squared(b, n, c.arg, RangeBytes)
      [] c.fn = "nist_monobit" -> nist_monobit(b, n)
      [] c.fn = "nist_block_frequency" -> nist_block_frequency(b, n, c.arg)
      [] c.fn = "nist_runs" -> nist_runs(b, n)
      [] c.fn = "nist_cumulative_sums" -> nist_cumulative_sums(b, n)
      [] c.fn = "nist_serial2" -> nist_serial2(b, n)

Init ==
    /\ buffer \in Buffers
    /\ buffer0 = buffer
    /\ m_i = Unset
    /\ s_i = Unset
    /\ heap = <<>>
    /\ last = [call |-> NoCall, ret |-> Unset]
    /\ solo = [c \in Calls(buffer) |-> FirstResult(c, buffer)]

Returned(fn, arg, ret) == last' = [call |-> Call(fn, arg), ret |-> ret]

CallMean ==
    /\ Len(buffer) >= 1
    /\ m_i' = mean(buffer, Len(buffer))
    /\ Returned("mean", 0, m_i')
    /\ UNCHANGED <<buffer, buffer0, s_i, heap, solo>>

CallStdev ==
    /\ Len(buffer) >= 1
    /\ m_i # Unset
    /\ s_i' = stdev(buffer, Len(buffer), m_i)
    /\ Returned("stdev", 0, s_i')
    /\ UNCHANGED <<buffer, buffer0, m_i, heap, solo>>

CallCoeffVar ==
    /\ m_i # Unset
    /\ s_i # Unset
    /\ Returned("coeff_var", 0, coeff_var(m_i, s_i))
    /\ UNCHANGED <<buffer, buffer0, m_i, s_i, heap, solo>>

\* free(freq) leaves the counters in the freed block
CallChiSquared ==
    /\ Len(buffer) >= 1
    /\ \E bins \in 1..MaxBins :
          LET r == chi_squared(buffer, Len(buffer), bins, RangeBytes)
          IN  /\ Returned("chi_squared", bins, r)
              /\ heap' = r.freq
    /\ UNCHANGED <<buffer, buffer0, m_i, s_i, solo>>

CallMonobit ==
    /\ Len(buffer) >= 1
    /\ Returned("nist_monobit", 0, nist_monobit(buffer, Len(buffer)))
    /\ UNCHANGED <<buffer, buffer0, m_i, s_i, heap, solo>>

CallBlockFrequency ==
    /\ \E M \in 1..MaxM :
          Returned("nist_block_frequency", M,
                   nist_block_frequency(buffer, Len(buffer), M))
    /\ UNCHANGED <<buffer, buffer0, m_i, s_i, heap, solo>>

CallRuns ==
    /\ Len(buffer) >= 1
    /\ Returned("nist_runs", 0, nist_runs(buffer, Len(buffer)))
    /\ UNCHANGED <<buffer, buffer0, m_i, s_i, heap, solo>>

CallCumulativeSums ==
    /\ Returned("nist_cumulative_sums", 0,
                nist_cumulative_sums(buffer, Len(buffer)))
    /\ UNCHANGED <<buffer, buffer0, m_i, s_i, heap, solo>>

CallSerial2 ==
    /\ Len(buffer) >= 1
    /\ Returned("nist_serial2", 0, nist_serial2(buffer, Len(buffer)))
    /\ UNCHANGED <<buffer, buffer0, m_i, s_i, heap, solo>>

Next ==
    \/ CallMean
    \/ CallStdev
    \/ CallCoeffVar
    \/ CallChiSquared
    \/ CallMonobit
    \/ CallBlockFrequency
    \/ CallRuns
    \/ CallCumulativeSums
    \/ CallSerial2

Spec == Init /\ [][Next]_vars

\* ==================================================================== claims
\* what the properties below say about the call that returned last
Fn == last.call.fn
Arg == last.call.arg
Ret == last.ret
NWords == Len(buffer)
NBits == 32 * Len(buffer)

\* bit i of the buffer: word i/32, position i%32
BufferBit(i) ==
    (buffer[(i \div 32) + 1][((i % 32) \div 8) + 1] \div (2 ^ (i % 8))) % 2

OnesBelow(k) == Cardinality({i \in 0..(k - 1) : BufferBit(i) = 1})

AllWordsAre(x) == \A i \in 1..NWords : buffer[i] = x

Range(lo, hi) == [i \in 1..(IF hi >= lo THEN hi - lo + 1 ELSE 0) |-> lo + i - 1]

\* C1: nist_block_frequency returns 0 whenever floor(32*len / M) < 20,
\* whatever the buffer holds, and reads no bit of it on that path.
BlockFrequencyTooFewBlocksFails ==
    (Fn = "nist_block_frequency" /\ NBits \div Arg < 20)
        => (Ret.verdict = 0 /\ Ret.blocks = <<>> /\ ~Ret.tested)

BlockFrequencyTooFewBlocksSeen ==
    /\ Fn = "nist_block_frequency"
    /\ NWords = 2 /\ buffer[1] = OnesWord /\ buffer[2] = AltWordA
    /\ Arg = 4
    /\ NBits \div Arg < 20
    /\ Ret.verdict = 0

\* C2: nist_serial2 on len >= 1 words counts exactly the cyclic pairs
\* (bit i, bit (i+1) mod 32*len), the pair (last bit, first bit) included:
\* the pair counters sum to 32*len and so do the single-bit counters.
Serial2CountsCyclicPairs ==
    (Fn = "nist_serial2" /\ NWords >= 1)
        => /\ Ret.c2[0] + Ret.c2[1] + Ret.c2[2] + Ret.c2[3] = NBits
           /\ Ret.c1[0] + Ret.c1[1] = NBits
           /\ \A v \in 0..3 :
                 Ret.c2[v] = Cardinality({i \in 0..(NBits - 1) :
                                 2 * BufferBit(i) + BufferBit((i + 1) % NBits) = v})
           /\ \A v \in 0..1 :
                 Ret.c1[v] = Cardinality({i \in 0..(NBits - 1) : BufferBit(i) = v})

Serial2WrapPairSeen ==
    /\ Fn = "nist_serial2"
    /\ buffer = <<HalfWord>>
    /\ Ret.c2[1] = 1
    /\ Ret.c2[0] + Ret.c2[1] + Ret.c2[2] + Ret.c2[3] = 32

\* C3: nist_cumulative_sums ends its walk with zmax equal to the largest
\* absolute running sum of +1/-1 over the non-empty prefixes; it returns 0
\* when zmax = 0 and divides by zmax only when zmax >= 1; an all-zero buffer
\* gives zmax = 32*len, an alternating one gives zmax = 1, and both go on to
\* a 0/1 verdict without taking the zmax = 0 return.
PrefixExcursion(k) == IF 2 * OnesBelow(k) >= k THEN 2 * OnesBelow(k) - k
                      ELSE k - 2 * OnesBelow(k)

CumulativeSumsExcursion ==
    Fn = "nist_cumulative_sums"
        => /\ \A k \in 1..NBits : PrefixExcursion(k) <= Ret.zmax
           /\ (NBits >= 1 => \E k \in 1..NBits : PrefixExcursion(k) = Ret.zmax)
           /\ (Ret.zmax = 0 => (Ret.verdict = 0 /\ ~Ret.divided))
           /\ (Ret.divided => Ret.zmax >= 1)
           /\ ((NWords >= 1 /\ AllWordsAre(ZeroWord))
                  => (Ret.zmax = NBits /\ Ret.divided /\ Ret.verdict \in {0, 1}))
           /\ ((NWords >= 1 /\ AllWordsAre(AltWordA))
                  => (Ret.zmax = 1 /\ Ret.divided /\ Ret.verdict \in {0, 1}))

CumulativeSumsAlternatingSeen ==
    /\ Fn = "nist_cumulative_sums"
    /\ buffer = <<AltWordA, AltWordA>>
    /\ Ret.zmax = 1
    /\ Ret.divided

\* C4: nist_runs counts the ones and the maximal runs of equal bits over all
\* 32*len bits, and returns 0 without computing the runs statistic whenever
\* (2*ones - n)^2 > 16*n, whatever the run count.
RunsPrecheck ==
    (Fn = "nist_runs" /\ NWords >= 1)
        => /\ Ret.ones = OnesBelow(NBits)
           /\ Ret.runsCnt = 1 + Cardinality({i \in 1..(NBits - 1) :
                                               BufferBit(i) # BufferBit(i - 1)})
           /\ ((2 * Ret.ones - NBits) * (2 * Ret.ones - NBits) > 16 * NBits
                  => (Ret.verdict = 0 /\ ~Ret.zComputed))

RunsPrecheckFailedSeen ==
    /\ Fn = "nist_runs"
    /\ (2 * Ret.ones - NBits) * (2 * Ret.ones - NBits) > 16 * NBits
    /\ Ret.runsCnt > 2
    /\ Ret.verdict = 0

\* C5: nist_monobit returns 0 on an all-zero and on an all-one buffer of
\* len >= 1 words: the deviation |2*ones - totalBits| is totalBits = 32*len.
MonobitUniformBufferFails ==
    (/\ Fn = "nist_monobit"
     /\ NWords >= 1
     /\ (AllWordsAre(ZeroWord) \/ AllWordsAre(OnesWord)))
        => /\ Ret.verdict = 0
           /\ Ret.dev = NBits
           /\ Ret.n = NBits
           /\ Ret.ones = (IF AllWordsAre(OnesWord) THEN NBits ELSE 0)

MonobitAllOnesSeen ==
    /\ Fn = "nist_monobit"
    /\ buffer = <<OnesWord, OnesWord>>
    /\ Ret.verdict = 0

\* C6 as stated: with zmax >= 1 the summation index runs over the integers
\* from floor((-n/zmax + 1)/4) to floor((n/zmax - 1)/4); an empty range
\* leaves p = 1.0 and the verdict pass.
CumulativeSumsRangeFloored ==
    (Fn = "nist_cumulative_sums" /\ Ret.zmax >= 1)
        => LET lo == (Ret.zmax - NBits) \div (4 * Ret.zmax)
               hi == (NBits - Ret.zmax) \div (4 * Ret.zmax)
           IN  /\ Ret.ks = Range(lo, hi)
               /\ (lo > hi => (Ret.p = 10000 /\ Ret.verdict = 1))

\* C6 amended: with zmax >= 1 the summation index runs over the integers
\* from (-n/zmax + 1)/4 rounded towards zero (the int cast; the value is
\* never positive) to floor((n/zmax - 1)/4); an empty range leaves p = 1.0
\* and the verdict pass.
CumulativeSumsRangeTruncated ==
    (Fn = "nist_cumulative_sums" /\ Ret.zmax >= 1)
        => LET lo == -((NBits - Ret.zmax) \div (4 * Ret.zmax))
               hi == (NBits - Ret.zmax) \div (4 * Ret.zmax)
           IN  /\ Ret.start = lo
               /\ Ret.end = hi
               /\ Ret.ks = Range(lo, hi)
               /\ (lo > hi => (Ret.ks = <<>> /\ Ret.p = 10000 /\ Ret.verdict = 1))

CumulativeSumsFractionalBoundSeen ==
    /\ Fn = "nist_cumulative_sums"
    /\ Ret.zmax >= 1
    /\ (NBits - Ret.zmax) % (4 * Ret.zmax) # 0
    /\ Len(Ret.ks) > 1
    /\ Ret.ks[1] = Ret.start

\* C7: chi_squared with 1 <= B <= n and R = 2^32 puts every sample x into the
\* one bin floor(x*B/R) clamped to B-1: the indices lie in 0..B-1, the counts
\* sum to n, and the statistic is 0 when every bin holds exactly n/B samples.
Low16(x) == x[1] + 256 * x[2]
High16(x) == x[3] + 256 * x[4]
FloorScaled(x, B) == (High16(x) * B + (Low16(x) * B) \div 65536) \div 65536

ChiSquaredBinning ==
    (Fn = "chi_squared" /\ Arg >= 1 /\ NWords >= Arg)
        => /\ Len(Ret.idxs) = NWords
           /\ \A i \in 1..NWords :
                 /\ Ret.idxs[i] \in 0..(Arg - 1)
                 /\ Ret.idxs[i] = (IF FloorScaled(buffer[i], Arg) > Arg - 1
                                   THEN Arg - 1 ELSE FloorScaled(buffer[i], Arg))
           /\ DOMAIN Ret.freq = 0..(Arg - 1)
           /\ \A j \in 0..(Arg - 1) :
                 Ret.freq[j] = Cardinality({i \in 1..NWords : Ret.idxs[i] = j})
           /\ ((\A j \in 0..(Arg - 1) : Ret.freq[j] * Arg = NWords)
                  => Ret.chiNum = 0)

ChiSquaredUniformSeen ==
    /\ Fn = "chi_squared"
    /\ Arg = 2
    /\ buffer = <<OnesWord, ZeroWord>>
    /\ Ret.freq[0] = 1 /\ Ret.freq[1] = 1
    /\ Ret.chiNum = 0

\* C8: every engine function leaves the sample buffer as the caller filled it
\* and returns, after any calls in any order, what it returns when it is the
\* first call on that buffer.
EngineCallsIndependent ==
    Fn # "none" => (buffer = buffer0 /\ Ret = solo[last.call])

EngineCalledAfterOthersSeen ==
    /\ Fn = "coeff_var"
    /\ heap # <<>>
    /\ NWords = 2
    /\ Ret = solo[last.call]

\* C9: with at least 20 blocks nist_block_frequency processes exactly
\* floor(32*len / M) blocks; block b reads the M bits b*M .. b*M+M-1, bit i
\* from word i/32 at position i%32; every bit below nBlocks*M is read once,
\* the trailing bits never, and no read is past bit 32*len - 1.
BlockFrequencyBlocks ==
    (Fn = "nist_block_frequency" /\ NBits \div Arg >= 20)
        => LET M == Arg
               nBlocks == NBits \div M
               ReadsOf(i) == {bj \in (1..nBlocks) \X (1..M) :
                                 Ret.blocks[bj[1]].rd[bj[2]] = <<i \div 32, i % 32>>}
           IN  /\ Ret.tested
               /\ Len(Ret.blocks) = nBlocks
               /\ \A b \in 1..nBlocks :
                     /\ Len(Ret.blocks[b].rd) = M
                     /\ \A j \in 1..M :
                           LET i == (b - 1) * M + (j - 1)
                           IN  /\ Ret.blocks[b].rd[j] = <<i \div 32, i % 32>>
                               /\ i < NBits
                     /\ Ret.blocks[b].ones =
                           Cardinality({j \in 1..M : BufferBit((b - 1) * M + (j - 1)) = 1})
               /\ \A i \in 0..(NBits - 1) :
                     Cardinality(ReadsOf(i)) = (IF i < nBlocks * M THEN 1 ELSE 0)

BlockFrequencyTrailingBitsSeen ==
    /\ Fn = "nist_block_frequency"
    /\ Arg = 3
    /\ NWords = 2
    /\ Ret.tested
    /\ Len(Ret.blocks) = 21
    /\ buffer[2] = OnesWord

\* C10: in nist_runs on len >= 1 words, whenever the pre-check passes and z
\* is computed, 0 < ones < n, so the divisor 2*sqrt(2n)*pi*(1-pi) is not
\* zero; all-zero and all-one buffers never reach the division.
RunsDivisorNonZero ==
    (Fn = "nist_runs" /\ NWords >= 1)
        => /\ (Ret.zComputed
                  => (0 < Ret.ones /\ Ret.ones < NBits /\ ~Ret.divisorZero))
           /\ ((AllWordsAre(ZeroWord) \/ AllWordsAre(OnesWord)) => ~Ret.zComputed)

RunsStatisticComputedSeen ==
    /\ Fn = "nist_runs"
    /\ Ret.zComputed
    /\ buffer = <<HalfWord, AltWordA>>
    /\ ~Ret.divisorZero

====
